---- MODULE Spec2Model ----
(***************************************************************************)
(* A model of the CVPR abstract scraper (cvpr_abstract_scraper_async.py):  *)
(* the partition scheduler scrape_all_years / scrape_year, the fetcher     *)
(* get_cached_or_fetch with its on-disk cache, and the extractor           *)
(* scrape_paper; and of the keyword tools that read its records,           *)
(* analyze_papers and aggregate_by_year.                                   *)
(***************************************************************************)
EXTENDS Integers, Sequences, FiniteSets, TLC

(***************************************************************************)
(* Bounds of the model.                                                    *)
(***************************************************************************)
\* the largest number of years (partitions) in a run's range
MaxYears == 2
\* the number of distinct paper URLs the site can list
MaxUrls == 2
\* the largest max_concurrent a run is configured with
MaxConcurrent == 2
\* the most paper links the site lists over all the years of one run
MaxUnits == 2
\* the longest text (in characters) of a matched element
MaxLen == 2
\* the most elements a find_all scan (emphasis, paragraphs, links) visits
MaxElems == 2
\* the number of calls of get_cached_or_fetch that may overlap
MaxFetches == 2
\* the number of hash seeds a process may start with (PYTHONHASHSEED)
MaxSeeds == 2
\* the longest content (in characters) stored in a cache file
MaxBody == 3
\* records in the file the keyword tools read
MaxPapers == 2

\* the first year of a range (default of start_year)
StartYear == 2015

URLs == 1..MaxUrls
AllYears == StartYear..(StartYear + MaxYears - 1)

VARIABLES
    \* ---- CVPRScraperAsync configuration (__init__)
    end_year,        \* self.end_year; the range is StartYear..end_year
    max_concurrent,  \* self.max_concurrent
    parallel_years,  \* self.parallel_years
    \* ---- scrape_all_years (the orchestrating coroutine)
    opc,             \* its position: "start", "gather", "merge", "seq", "returned", "raised"
    idx,             \* the year the merge loop / the sequential loop is at
    all_papers,      \* the accumulator (sequence of Papers)
    checkpoints,     \* the checkpoint files written so far, in write order
    completed,       \* the years in the order their scrape_year ended
    \* ---- scrape_year, one per year
    ypc,             \* "pending", "discovering", "fetching", "done", "raised"
    paper_urls,      \* the discovered URL set
    upc,             \* per URL: "waiting", "inflight", "finished"
    semaphore,       \* the value of the year's asyncio.Semaphore
    papers,          \* the year's result list, in arrival order
    failed_count,    \* the year's failed_count
    fetch_log,       \* per URL, how its unit's get_cached_or_fetch ended:
                     \* "none" (not called yet), "content", "failed" (None)
    \* ---- scrape_paper, one call
    epc,             \* its position: "idle", "fetch", "title", "authors", "emphasis",
                     \* "abstract", "paragraphs", "links", "emit", "done"
    esel,            \* the index of the selector the current loop is at
    scanned,         \* the elements the current find_all loop has visited
    e_url,           \* the url argument
    e_year,          \* the year argument
    title,           \* the local title
    authors,         \* the local authors
    abstract,        \* the local abstract
    pdf_url,         \* the local pdf_url
    supp_url,        \* the local supp_url
    result,          \* what scrape_paper returned
    link,            \* the loop variable of the link loop: the link last scanned
    \* ---- the cache directory and the calls of get_cached_or_fetch
    use_cache,       \* self.use_cache
    hashseed,        \* the seed of hash() in the running process
    file,            \* the cache files: key -> content, or Absent
    served,          \* per key, the bodies the server has sent with status 200
    fpc,             \* per call: "idle", "read", "net", "open_w", "write", "done",
                     \* "raised" (an exception left the call)
    fkey,            \* per call: cache_key
    fcontent,        \* per call: the local content
    woff,            \* per call: how much of content the cache file handle has written
    fret,            \* per call: the value returned
    requests,        \* per call: the session.get requests it issued
    seen,            \* per call: what the cache file held when cache_file.exists() was checked
    readfail,        \* per call: the cache read raised
    \* ---- a partition scraped twice over one cache directory
    run,             \* 1: the first run, 2: the re-run
    rpc,             \* "idle", "index", "pages", "finished"
    todo,            \* the discovered URLs not yet scraped in this run
    run_seed,        \* per run: the hash seed of its process
    run_urls,        \* per run: the URL set discovery returned
    run_records,     \* per run: the Records (url, page content) scraped
    run_net,         \* per run: the targets requested from the network
    run_ok,          \* per run: no fetch of it returned None
    run_gets,        \* per run and target: the session.get requests issued for it
    \* ---- one text written to a cache file and read back
    tpc,             \* "idle", "start", "written", "read"
    linesep,         \* os.linesep of the platform
    t_content,       \* the text handed to f.write
    t_stored,        \* the characters in the file
    t_read,          \* the text f.read() gave
    \* ---- get_paper_urls_for_year, one call, and the tasks made from it
    dpc,             \* "idle", "index", "listing", "scan", "dedup", "returned", "done"
    d_year,          \* the year argument
    d_links,         \* the links (find_all('a', href=True)) of the page being scanned
    d_pos,           \* the link the scan loop is at
    d_urls,          \* the local paper_urls
    d_tasks,         \* tasks of scrape_year, by the url each was made for
    \* ---- the keyword tools: analyze_papers / aggregate_by_year, one call
    k_tool,          \* the function called: "analyze_papers" or "aggregate_by_year"
    kpc,             \* "idle", "loop", "returned"
    k_papers,        \* the argument papers
    k_pos,           \* the paper the loop is at
    year_stats,      \* year_stats / year_keyword_counts: per year per keyword
    year_totals,     \* per year, the papers seen
    keyword_papers,  \* per keyword, the papers it was found in (analyze_papers)
    year_any_titles, \* per year, the set of titles with a keyword
    year_any_counts  \* the dict returned: per year with a hit, a count

schedVars == <<end_year, max_concurrent, parallel_years, opc, idx, all_papers,
               checkpoints, completed, ypc, paper_urls, upc, semaphore, papers,
               failed_count, fetch_log>>

extractVars == <<epc, esel, scanned, e_url, e_year, title, authors, abstract,
                 pdf_url, supp_url, result, link>>

cacheVars == <<use_cache, hashseed, file, served, fpc, fkey, fcontent, woff,
               fret, requests, seen, readfail>>

textVars == <<tpc, linesep, t_content, t_stored, t_read>>

rerunVars == <<run, rpc, todo, run_seed, run_urls, run_records, run_net, run_ok,
               run_gets>>

discoverVars == <<dpc, d_year, d_links, d_pos, d_urls, d_tasks>>

statVars == <<k_tool, kpc, k_papers, k_pos, year_stats, year_totals, keyword_papers,
              year_any_titles, year_any_counts>>

vars == <<schedVars, extractVars, cacheVars, textVars, rerunVars, discoverVars,
          statVars>>

(***************************************************************************)
(* Helpers.                                                                *)
(***************************************************************************)
Range(s) == {s[i] : i \in DOMAIN s}

RECURSIVE SeqSum(_)
SeqSum(s) == IF s = <<>> THEN 0 ELSE Head(s) + SeqSum(Tail(s))

\* years = list(range(self.start_year, self.end_year + 1))
years == StartYear..end_year

\* the value None, where a Paper is expected
NoPaper == [none |-> TRUE]

\* a slip: every Paper is given the first year of the range
PaperOfFirstYear(y, u) == [year |-> StartYear, url |-> u]

\* Paper(..., year=year, url=url, ...) as the scheduler sees it
Paper(y, u) == [year |-> y, url |-> u]

\* the branch condition of scrape_all_years
ParallelBranch == parallel_years /\ Cardinality(years) > 1

\* a slip: the accumulator replaced by the year's result
ExtendReplaces(acc, year_papers) == year_papers

\* all_papers.extend(result)
Extend(acc, year_papers) == acc \o year_papers

\* isinstance(result, Exception), on the outcome gather recorded for year y
IsException(y) == ypc[y] = "raised"

\* a slip: waiting for the first task only
GatherFirstCompleted == \E y \in years : ypc[y] \in {"done", "raised"}

\* asyncio.gather(*tasks, return_exceptions=True) has every task's outcome
GatherDone == \A y \in years : ypc[y] \in {"done", "raised"}

\* save_papers_json_async(all_papers, f"cvpr_abstracts_partial_{year}.json")
SavePartial(cps, acc, y) == Append(cps, [year |-> y, records |-> acc])

\* the number of paper URLs discovered so far in the run
Discovered == SeqSum([i \in 1..MaxYears |-> Cardinality(paper_urls[StartYear + i - 1])])

\* asyncio.Semaphore(self.max_concurrent)
NewSemaphore == max_concurrent

\* a slip: the semaphore never makes a unit wait
CanAcquireAlways(y) == TRUE

\* `async with semaphore` may enter
CanAcquire(y) == semaphore[y] > 0

\* a slip: the early return of scrape_year is never taken
NoPaperUrlsNever(S) == FALSE

\* `if not paper_urls:` in scrape_year
NoPaperUrls(S) == S = {}

\* the ways a unit's get_cached_or_fetch ends: with content (from the cache
\* or a 200 answer), or with None (another status, or the GET raised)
FetchEnds == {"content", "failed"}

\* a slip: None is collected like a Paper
IsPaperOrNone(paper) == TRUE

\* `if paper:` in the as_completed loop
IsPaper(paper) == paper /= NoPaper

(***************************************************************************)
(* Init: the scraper as constructed, before scrape_all_years runs.         *)
(***************************************************************************)
SchedInit ==
    /\ end_year \in AllYears
    /\ max_concurrent \in 1..MaxConcurrent
    /\ parallel_years \in BOOLEAN
    /\ opc = "start"
    /\ idx = StartYear
    /\ all_papers = <<>>
    /\ checkpoints = <<>>
    /\ completed = <<>>
    /\ ypc = [y \in AllYears |-> "pending"]
    /\ paper_urls = [y \in AllYears |-> {}]
    /\ upc = [y \in AllYears |-> [u \in URLs |-> "none"]]
    /\ semaphore = [y \in AllYears |-> 0]
    /\ papers = [y \in AllYears |-> <<>>]
    /\ failed_count = [y \in AllYears |-> 0]
    /\ fetch_log = [y \in AllYears |-> [u \in URLs |-> "none"]]

(***************************************************************************)
(* scrape_all_years.                                                       *)
(***************************************************************************)
\* parallel branch: tasks = [self.scrape_year(year) ...]; gather schedules them all
Gather ==
    /\ opc = "start"
    /\ ParallelBranch
    /\ opc' = "gather"
    /\ ypc' = [y \in AllYears |-> IF y \in years THEN "discovering" ELSE ypc[y]]
    /\ UNCHANGED <<end_year, max_concurrent, parallel_years, idx, all_papers,
                   checkpoints, completed, paper_urls, upc, semaphore, papers,
                   failed_count,
                   fetch_log>>

\* gather returns once every task has ended; the merge loop starts
GatherReturns ==
    /\ opc = "gather"
    /\ GatherDone
    /\ opc' = "merge"
    /\ idx' = StartYear
    /\ UNCHANGED <<end_year, max_concurrent, parallel_years, all_papers,
                   checkpoints, completed, ypc, paper_urls, upc, semaphore,
                   papers, failed_count,
                   fetch_log>>

\* one iteration of `for year, result in zip(years, results)`
MergeStep ==
    /\ opc = "merge"
    /\ idx \in years
    /\ IF IsException(idx)
         THEN UNCHANGED <<all_papers, checkpoints>>
         ELSE /\ all_papers' = Extend(all_papers, papers[idx])
              /\ checkpoints' = SavePartial(checkpoints, all_papers', idx)
    /\ idx' = idx + 1
    /\ opc' = IF idx = end_year THEN "returned" ELSE "merge"
    /\ UNCHANGED <<end_year, max_concurrent, parallel_years, completed, ypc,
                   paper_urls, upc, semaphore, papers, failed_count,
                   fetch_log>>

\* a slip: the sequential branch starts a year before the one before it is
\* through
SeqStartAny ==
    /\ opc \in {"start", "seq"}
    /\ ~ParallelBranch
    /\ \E y \in years :
          /\ ypc[y] = "pending"
          /\ ypc' = [ypc EXCEPT ![y] = "discovering"]
    /\ opc' = "seq"
    /\ UNCHANGED <<end_year, max_concurrent, parallel_years, idx, all_papers,
                   checkpoints, completed, paper_urls, upc, semaphore, papers,
                   failed_count, fetch_log>>

\* sequential branch: `year_papers = await self.scrape_year(year)` starts
SeqStart ==
    /\ opc \in {"start", "seq"}
    /\ ~ParallelBranch
    /\ idx \in years
    /\ ypc[idx] = "pending"
    /\ opc' = "seq"
    /\ ypc' = [ypc EXCEPT ![idx] = "discovering"]
    /\ UNCHANGED <<end_year, max_concurrent, parallel_years, idx, all_papers,
                   checkpoints, completed, paper_urls, upc, semaphore, papers,
                   failed_count,
                   fetch_log>>

\* sequential branch: scrape_year returned; extend, save, next year
SeqStep ==
    /\ opc = "seq"
    /\ idx \in years
    /\ ypc[idx] = "done"
    /\ all_papers' = Extend(all_papers, papers[idx])
    /\ checkpoints' = SavePartial(checkpoints, all_papers', idx)
    /\ idx' = idx + 1
    /\ opc' = IF idx = end_year THEN "returned" ELSE "seq"
    /\ UNCHANGED <<end_year, max_concurrent, parallel_years, completed, ypc,
                   paper_urls, upc, semaphore, papers, failed_count,
                   fetch_log>>

(***************************************************************************)
(* scrape_year.                                                            *)
(***************************************************************************)
\* get_paper_urls_for_year returned the URL set S
Discover(y, S) ==
    /\ ypc[y] = "discovering"
    /\ Discovered + Cardinality(S) <= MaxUnits
    /\ paper_urls' = [paper_urls EXCEPT ![y] = S]
    /\ IF NoPaperUrls(S)
         THEN \* `if not paper_urls: return []`
              /\ ypc' = [ypc EXCEPT ![y] = "done"]
              /\ completed' = Append(completed, y)
              /\ UNCHANGED <<upc, semaphore>>
         ELSE /\ ypc' = [ypc EXCEPT ![y] = "fetching"]
              /\ semaphore' = [semaphore EXCEPT ![y] = NewSemaphore]
              /\ upc' = [upc EXCEPT ![y] =
                           [u \in URLs |-> IF u \in S THEN "waiting" ELSE "none"]]
              /\ UNCHANGED completed
    /\ UNCHANGED <<end_year, max_concurrent, parallel_years, opc, idx,
                   all_papers, checkpoints, papers, failed_count,
                   fetch_log>>

\* an unexpected error inside scrape_year (discovery throwing): nothing in
\* scrape_year catches it; in the sequential branch nothing in
\* scrape_all_years catches it either
DiscoverRaises(y) ==
    /\ ypc[y] = "discovering"
    /\ ypc' = [ypc EXCEPT ![y] = "raised"]
    /\ completed' = Append(completed, y)
    /\ opc' = IF ParallelBranch THEN opc ELSE "raised"
    /\ UNCHANGED <<end_year, max_concurrent, parallel_years, idx, all_papers,
                   checkpoints, paper_urls, upc, semaphore, papers,
                   failed_count,
                   fetch_log>>

\* scrape_with_semaphore(url) enters `async with semaphore`
Admit(y, u) ==
    /\ ypc[y] = "fetching"
    /\ upc[y][u] = "waiting"
    /\ CanAcquire(y)
    /\ semaphore' = [semaphore EXCEPT ![y] = @ - 1]
    /\ upc' = [upc EXCEPT ![y][u] = "inflight"]
    /\ UNCHANGED <<end_year, max_concurrent, parallel_years, opc, idx,
                   all_papers, checkpoints, completed, ypc, paper_urls, papers,
                   failed_count,
                   fetch_log>>

\* a slip: the unit appends its Paper to the accumulator of scrape_all_years
FinishWritesShared(y, u, fetch, ok) ==
    /\ ypc[y] = "fetching"
    /\ upc[y][u] = "inflight"
    /\ fetch = "failed" => ~ok
    /\ fetch_log' = [fetch_log EXCEPT ![y][u] = fetch]
    /\ semaphore' = [semaphore EXCEPT ![y] = @ + 1]
    /\ upc' = [upc EXCEPT ![y][u] = "finished"]
    /\ IF ok
         THEN /\ all_papers' = Append(all_papers, Paper(y, u))
              /\ UNCHANGED <<papers, failed_count>>
         ELSE /\ failed_count' = [failed_count EXCEPT ![y] = @ + 1]
              /\ UNCHANGED <<papers, all_papers>>
    /\ IF \A v \in paper_urls[y] : upc'[y][v] = "finished"
         THEN /\ ypc' = [ypc EXCEPT ![y] = "done"]
              /\ completed' = Append(completed, y)
         ELSE UNCHANGED <<ypc, completed>>
    /\ UNCHANGED <<end_year, max_concurrent, parallel_years, opc, idx,
                   checkpoints, paper_urls>>

\* the body of scrape_with_semaphore for url u: get_cached_or_fetch ends as
\* fetch says, scrape_paper returns a Paper (ok) or None (always None when
\* there is no content); the semaphore is released and the as_completed
\* loop collects the outcome; after the last outcome scrape_year returns
\* papers
Finish(y, u, fetch, ok) ==
    /\ ypc[y] = "fetching"
    /\ upc[y][u] = "inflight"
    /\ fetch = "failed" => ~ok
    /\ fetch_log' = [fetch_log EXCEPT ![y][u] = fetch]
    /\ semaphore' = [semaphore EXCEPT ![y] = @ + 1]
    /\ upc' = [upc EXCEPT ![y][u] = "finished"]
    /\ LET paper == IF ok THEN Paper(y, u) ELSE NoPaper
       IN  IF IsPaper(paper)
             THEN /\ papers' = [papers EXCEPT ![y] = Append(@, paper)]
                  /\ UNCHANGED failed_count
             ELSE /\ failed_count' = [failed_count EXCEPT ![y] = @ + 1]
                  /\ UNCHANGED papers
    /\ IF \A v \in paper_urls[y] : upc'[y][v] = "finished"
         THEN /\ ypc' = [ypc EXCEPT ![y] = "done"]
              /\ completed' = Append(completed, y)
         ELSE UNCHANGED <<ypc, completed>>
    /\ UNCHANGED <<end_year, max_concurrent, parallel_years, opc, idx,
                   all_papers, checkpoints, paper_urls>>

\* the scheduler before any run, for the specifications that do not run it
SchedIdle ==
    /\ SchedInit
    /\ end_year = StartYear
    /\ max_concurrent = 1
    /\ parallel_years = FALSE

(***************************************************************************)
(* scrape_paper: the extraction of one page.  Texts are sequences of       *)
(* characters; "C" stands for a match of CVPR\s+\d{4}, "nl" for a line     *)
(* break.  The text of an abstract candidate is kept by its length.        *)
(***************************************************************************)
\* the value None, where a URL is expected
NoneUrl == <<"None">>

SeqsUpTo(S, n) == UNION {[1..k -> S] : k \in 0..n}

\* len(title_selectors), len(author_selectors), len(abstract_selectors)
NumTitleSelectors == 4
NumAuthorSelectors == 4
NumAbstractSelectors == 7
\* `len(abstract) > 50`
MinAbstractLen == 50
\* `len(text) > 200`
MinParagraphLen == 200

Whitespace == {" ", "nl"}
TitleTexts == SeqsUpTo({"x", " ", "nl", "C"}, MaxLen)
AuthorTexts == SeqsUpTo({"x", " ", ","}, MaxLen)
\* an abstract candidate: whether it starts with the "Abstract:" label, and
\* the length of what is left once the label and the blanks are stripped
AbstractTexts == [label : BOOLEAN, len : {0, MinAbstractLen, MinAbstractLen + 1}]
\* a paragraph: its stripped length, and whether 'abstract' is in its first 50 characters
ParagraphTexts == [len : {0, MinParagraphLen, MinParagraphLen + 1}, mentions : BOOLEAN]
\* a hyperlink: 'pdf' in its text, its href ends in '.pdf', 'supp' in its text
Links == [textPdf : BOOLEAN, hrefPdf : BOOLEAN, textSupp : BOOLEAN]
\* the loop variable `link` before the link loop has run
NoLink == [none |-> TRUE]

\* str.strip()
RECURSIVE LStrip(_)
LStrip(s) == IF s /= <<>> /\ Head(s) \in Whitespace THEN LStrip(Tail(s)) ELSE s

RECURSIVE RStrip(_)
RStrip(s) ==
    IF s /= <<>> /\ s[Len(s)] \in Whitespace THEN RStrip(SubSeq(s, 1, Len(s) - 1)) ELSE s

Strip(s) == RStrip(LStrip(s))

\* the rest of s from its first line break on
RECURSIVE FromLineBreak(_)
FromLineBreak(s) ==
    IF s = <<>> \/ Head(s) = "nl" THEN s ELSE FromLineBreak(Tail(s))

\* re.sub(r'CVPR\s+\d{4}.*', '', title): every match goes, each to the end of its line
RECURSIVE RemoveVenue(_)
RemoveVenue(s) ==
    IF s = <<>> THEN <<>>
    ELSE IF Head(s) = "C" THEN RemoveVenue(FromLineBreak(Tail(s)))
    ELSE <<Head(s)>> \o RemoveVenue(Tail(s))

\* title_elem.get_text().strip(), then the venue annotation removed, then strip()
TitleOf(text) == Strip(RemoveVenue(Strip(text)))

\* the empty abstract ""
NoAbstract == [len |-> 0, src |-> <<"none">>]

\* re.sub(r'^Abstract\s*:?\s*', '', abstract_text, flags=re.IGNORECASE).strip(),
\* of the element matched by selector i
AbstractOf(text, i) ==
    IF text.len = 0 THEN NoAbstract ELSE [len |-> text.len, src |-> <<"selector", i>>]

\* `len(abstract) > 50`
LongEnough(a) == a.len > MinAbstractLen

\* `len(text) > 200 and 'abstract' not in text.lower()[:50]`
ParagraphQualifies(p) == p.len > MinParagraphLen /\ ~p.mentions

\* `'pdf' in text or href.endswith('.pdf')`
IsPdfLink(l) == l.textPdf \/ l.hrefPdf

\* `'supp' in text or 'supplementary' in text`
IsSuppLink(l) == l.textSupp

\* a slip: the abstract left out of the acceptance test
AcceptTitleOnly(t, a) == t /= <<>>

\* `if title and abstract`
Accept(t, a) == t /= <<>> /\ a /= NoAbstract

\* Paper(title=..., pdf_url=pdf_url if pdf_url else None, ...)
FullPaper(t, au, a, y, u, pdf, supp) ==
    [title |-> t, authors |-> au, abstract |-> a, year |-> y, url |-> u,
     pdf_url |-> IF pdf /= <<>> THEN pdf ELSE NoneUrl,
     supplementary_url |-> IF supp /= <<>> THEN supp ELSE NoneUrl]

ExtractIdle ==
    /\ epc = "idle"
    /\ esel = 1
    /\ scanned = 0
    /\ e_url = 1
    /\ e_year = StartYear
    /\ title = <<>>
    /\ authors = <<>>
    /\ abstract = NoAbstract
    /\ pdf_url = <<>>
    /\ supp_url = <<>>
    /\ result = NoPaper
    /\ link = NoLink

\* scrape_paper(session, url, year) is called
ExtractInit ==
    /\ epc = "fetch"
    /\ esel = 1
    /\ scanned = 0
    /\ e_url \in URLs
    /\ e_year = StartYear
    /\ title = <<>>
    /\ authors = <<>>
    /\ abstract = NoAbstract
    /\ pdf_url = <<>>
    /\ supp_url = <<>>
    /\ result = NoPaper
    /\ link = NoLink

\* content = await self.get_cached_or_fetch(...); `if not content: return None`
FetchContent(ok) ==
    /\ epc = "fetch"
    /\ epc' = IF ok THEN "title" ELSE "done"
    /\ UNCHANGED <<link, esel, scanned, e_url, e_year, title, authors, abstract,
                   pdf_url, supp_url, result>>

\* one iteration of `for selector in title_selectors`; select_one found an
\* element with this text, or found none
TitleStep(found, text) ==
    /\ epc = "title"
    /\ title' = IF found THEN TitleOf(text) ELSE title
    /\ IF title' /= <<>> \/ esel = NumTitleSelectors
         THEN epc' = "authors" /\ esel' = 1
         ELSE epc' = epc /\ esel' = esel + 1
    /\ UNCHANGED <<link, scanned, e_url, e_year, authors, abstract, pdf_url,
                   supp_url, result>>

\* one iteration of `for selector in author_selectors`: the first element
\* found ends the loop, whatever its text
AuthorStep(found, text) ==
    /\ epc = "authors"
    /\ authors' = IF found THEN Strip(text) ELSE authors
    /\ IF found \/ esel = NumAuthorSelectors
         THEN /\ epc' = IF authors' = <<>> THEN "emphasis" ELSE "abstract"
              /\ esel' = 1
         ELSE epc' = epc /\ esel' = esel + 1
    /\ UNCHANGED <<link, scanned, e_url, e_year, title, abstract, pdf_url, supp_url,
                   result>>

\* one iteration of `for elem in soup.find_all(['i', 'b', 'em', 'strong'])`
EmphasisStep(elem) ==
    /\ epc = "emphasis"
    /\ scanned < MaxElems
    /\ LET text == Strip(elem)
       IN  IF \E i \in DOMAIN text : text[i] = ","
             THEN authors' = text /\ epc' = "abstract" /\ scanned' = 0
             ELSE authors' = authors /\ epc' = epc /\ scanned' = scanned + 1
    /\ UNCHANGED <<link, esel, e_url, e_year, title, abstract, pdf_url, supp_url,
                   result>>

\* the emphasis scan runs out of elements
EmphasisEnd ==
    /\ epc = "emphasis"
    /\ epc' = "abstract"
    /\ scanned' = 0
    /\ UNCHANGED <<link, esel, e_url, e_year, title, authors, abstract, pdf_url,
                   supp_url, result>>

\* one iteration of `for selector in abstract_selectors`
AbstractStep(found, text) ==
    /\ epc = "abstract"
    /\ abstract' = IF found THEN AbstractOf(text, esel) ELSE abstract
    /\ IF (found /\ LongEnough(abstract')) \/ esel = NumAbstractSelectors
         THEN /\ epc' = IF abstract' = NoAbstract THEN "paragraphs" ELSE "links"
              /\ esel' = 1
         ELSE epc' = epc /\ esel' = esel + 1
    /\ UNCHANGED <<link, scanned, e_url, e_year, title, authors, pdf_url, supp_url,
                   result>>

\* one iteration of `for p in paragraphs` (only `if not abstract`)
ParagraphStep(p) ==
    /\ epc = "paragraphs"
    /\ scanned < MaxElems
    /\ IF ParagraphQualifies(p)
         THEN /\ abstract' = [len |-> p.len, src |-> <<"paragraph", scanned + 1>>]
              /\ epc' = "links"
              /\ scanned' = 0
         ELSE abstract' = abstract /\ epc' = epc /\ scanned' = scanned + 1
    /\ UNCHANGED <<link, esel, e_url, e_year, title, authors, pdf_url, supp_url,
                   result>>

\* the paragraph scan runs out of paragraphs
ParagraphEnd ==
    /\ epc = "paragraphs"
    /\ epc' = "links"
    /\ scanned' = 0
    /\ UNCHANGED <<link, esel, e_url, e_year, title, authors, abstract, pdf_url,
                   supp_url, result>>

\* one iteration of `for link in soup.find_all('a', href=True)`;
\* urljoin(url, href) is kept as the link's place in the page
LinkStep(l) ==
    /\ epc = "links"
    /\ scanned < MaxElems
    /\ scanned' = scanned + 1
    /\ IF IsPdfLink(l)
         THEN pdf_url' = <<"link", scanned'>> /\ UNCHANGED supp_url
         ELSE IF IsSuppLink(l)
                THEN supp_url' = <<"link", scanned'>> /\ UNCHANGED pdf_url
                ELSE UNCHANGED <<pdf_url, supp_url>>
    /\ link' = l
    /\ UNCHANGED <<epc, esel, e_url, e_year, title, authors, abstract, result>>

\* the link scan runs out of links; `link` is not read after the loop
LinkEnd ==
    /\ epc = "links"
    /\ epc' = "emit"
    /\ scanned' = 0
    /\ link' = NoLink
    /\ UNCHANGED <<esel, e_url, e_year, title, authors, abstract, pdf_url,
                   supp_url, result>>

\* `if title and abstract: return Paper(...)`, `else: return None`
Emit ==
    /\ epc = "emit"
    /\ epc' = "done"
    /\ result' = IF Accept(title, abstract)
                   THEN FullPaper(title, authors, abstract, e_year, e_url,
                                  pdf_url, supp_url)
                   ELSE NoPaper
    /\ UNCHANGED <<link, esel, scanned, e_url, e_year, title, authors, abstract,
                   pdf_url, supp_url>>

\* `except Exception as e: ... return None`, from anywhere in the try block
ScrapeRaises ==
    /\ epc \in {"title", "authors", "emphasis", "abstract", "paragraphs", "links"}
    /\ epc' = "done"
    /\ result' = NoPaper
    /\ UNCHANGED <<link, esel, scanned, e_url, e_year, title, authors, abstract,
                   pdf_url, supp_url>>

(***************************************************************************)
(* The text of a cache file: aiofiles.open(cache_file, 'w' / 'r',          *)
(* encoding='utf-8') opens in text mode with newline=None.                 *)
(***************************************************************************)
TextChars == {"a", "CR", "LF"}

\* os.linesep: "\n" (POSIX) or "\r\n" (Windows)
LineSeps == {<<"LF">>, <<"CR", "LF">>}

\* f.read() in text mode, newline=None: "\r\n" and "\r" are read as "\n"
RECURSIVE ReadText(_)
ReadText(s) ==
    IF s = <<>> THEN <<>>
    ELSE IF Head(s) = "CR"
           THEN <<"LF">> \o ReadText(IF Len(s) >= 2 /\ s[2] = "LF"
                                       THEN Tail(Tail(s)) ELSE Tail(s))
           ELSE <<Head(s)>> \o ReadText(Tail(s))

\* f.write(content) in text mode, newline=None: "\n" is written as os.linesep
RECURSIVE WriteText(_, _)
WriteText(s, sep) ==
    IF s = <<>> THEN <<>>
    ELSE (IF Head(s) = "LF" THEN sep ELSE <<Head(s)>>) \o WriteText(Tail(s), sep)

TextIdle ==
    /\ tpc = "idle"
    /\ linesep = <<"LF">>
    /\ t_content = <<>>
    /\ t_stored = <<>>
    /\ t_read = <<>>

\* a response text is about to be cached
TextInit ==
    /\ tpc = "start"
    /\ linesep \in LineSeps
    /\ t_content \in SeqsUpTo(TextChars, MaxBody)
    /\ t_stored = <<>>
    /\ t_read = <<>>

\* `async with aiofiles.open(cache_file, 'w', ...) as f: await f.write(content)`
CachePut ==
    /\ tpc = "start"
    /\ tpc' = "written"
    /\ t_stored' = WriteText(t_content, linesep)
    /\ UNCHANGED <<linesep, t_content, t_read>>

\* `async with aiofiles.open(cache_file, 'r', ...) as f: return await f.read()`
CacheGet ==
    /\ tpc = "written"
    /\ tpc' = "read"
    /\ t_read' = ReadText(t_stored)
    /\ UNCHANGED <<linesep, t_content, t_stored>>

(***************************************************************************)
(* get_cached_or_fetch and the cache directory.                            *)
(***************************************************************************)
Fetches == 1..MaxFetches
Seeds == 1..MaxSeeds

\* hash(url): a keyed hash, one value per seed and url
Hash(seed, u) == seed * (MaxUrls + 1) + u

\* f"paper_{hash(url)}" (scrape_paper)
PaperKey(seed, u) == <<"paper", Hash(seed, u)>>

\* f"cvpr_{year}_main" (get_paper_urls_for_year)
MainKey(y) == <<"main", y>>

CacheKeys == {MainKey(y) : y \in AllYears} \cup {PaperKey(s, u) : s \in Seeds, u \in URLs}

\* a file that does not exist
Absent == <<"absent">>

\* the value None returned for a URL
NoContent == <<"None">>

\* the bodies the server may send for a URL (a page may change between requests)
Bodies == {<<"a", "b">>, <<"c", "d">>}

\* a slip: the cache is never consulted
CacheNeverHit(k) == FALSE

\* `self.use_cache and cache_file.exists()`
CacheHit(k) == use_cache /\ file[k] /= Absent

\* the file after one character c is written at offset off (a hole reads as "nul")
WriteAt(s, off, c) ==
    IF off < Len(s) THEN [s EXCEPT ![off + 1] = c]
    ELSE s \o [i \in 1..(off - Len(s)) |-> "nul"] \o <<c>>

CacheIdle ==
    /\ use_cache = TRUE
    /\ hashseed = 1
    /\ file = [k \in CacheKeys |-> Absent]
    /\ served = [k \in CacheKeys |-> {}]
    /\ fpc = [f \in Fetches |-> "idle"]
    /\ fkey = [f \in Fetches |-> MainKey(StartYear)]
    /\ fcontent = [f \in Fetches |-> <<>>]
    /\ woff = [f \in Fetches |-> 0]
    /\ fret = [f \in Fetches |-> NoContent]
    /\ requests = [f \in Fetches |-> 0]
    /\ seen = [f \in Fetches |-> Absent]
    /\ readfail = [f \in Fetches |-> FALSE]

\* a process with an empty cache directory; caching on or off
CacheInit ==
    /\ use_cache \in BOOLEAN
    /\ hashseed = 1
    /\ file = [k \in CacheKeys |-> Absent]
    /\ served = [k \in CacheKeys |-> {}]
    /\ fpc = [f \in Fetches |-> "idle"]
    /\ fkey = [f \in Fetches |-> MainKey(StartYear)]
    /\ fcontent = [f \in Fetches |-> <<>>]
    /\ woff = [f \in Fetches |-> 0]
    /\ fret = [f \in Fetches |-> NoContent]
    /\ requests = [f \in Fetches |-> 0]
    /\ seen = [f \in Fetches |-> Absent]
    /\ readfail = [f \in Fetches |-> FALSE]

\* get_cached_or_fetch(session, url, cache_key) is called and runs to its
\* first await: the cache check
Call(f, k) ==
    /\ fpc[f] = "idle"
    /\ fkey' = [fkey EXCEPT ![f] = k]
    /\ seen' = [seen EXCEPT ![f] = file[k]]
    /\ fpc' = [fpc EXCEPT ![f] = IF CacheHit(k) THEN "read" ELSE "net"]
    /\ UNCHANGED <<use_cache, hashseed, file, served, fcontent, woff, fret,
                   requests, readfail>>

\* get_cached_or_fetch is called with caching on and cache_file.exists()
\* raises (the stat fails with an error other than "no such file": a name
\* too long, no permission on the directory); the test is outside every
\* try, so the exception leaves the call
ExistsRaises(f, k) ==
    /\ fpc[f] = "idle"
    /\ use_cache
    /\ fkey' = [fkey EXCEPT ![f] = k]
    /\ fpc' = [fpc EXCEPT ![f] = "raised"]
    /\ UNCHANGED <<use_cache, hashseed, file, served, fcontent, woff, fret,
                   requests, seen, readfail>>

\* the cache file is opened and read: `return await f.read()`
CacheRead(f) ==
    /\ fpc[f] = "read"
    /\ fret' = [fret EXCEPT ![f] = ReadText(file[fkey[f]])]
    /\ fpc' = [fpc EXCEPT ![f] = "done"]
    /\ UNCHANGED <<use_cache, hashseed, file, served, fkey, fcontent, woff,
                   requests, seen, readfail>>

\* the open or the read raises: logged, and the call goes on to fetch
CacheReadFails(f) ==
    /\ fpc[f] = "read"
    /\ readfail' = [readfail EXCEPT ![f] = TRUE]
    /\ fpc' = [fpc EXCEPT ![f] = "net"]
    /\ UNCHANGED <<use_cache, hashseed, file, served, fkey, fcontent, woff,
                   fret, requests, seen>>

\* session.get(url) answers 200 with body
NetOk(f, body) ==
    /\ fpc[f] = "net"
    /\ requests' = [requests EXCEPT ![f] = @ + 1]
    /\ served' = [served EXCEPT ![fkey[f]] = @ \cup {body}]
    /\ fcontent' = [fcontent EXCEPT ![f] = body]
    /\ IF use_cache
         THEN fpc' = [fpc EXCEPT ![f] = "open_w"] /\ UNCHANGED fret
         ELSE fpc' = [fpc EXCEPT ![f] = "done"] /\ fret' = [fret EXCEPT ![f] = body]
    /\ UNCHANGED <<use_cache, hashseed, file, fkey, woff, seen, readfail>>

\* a slip: the failure leaves an (empty) cache file behind
NetFailsCachesError(f) ==
    /\ fpc[f] = "net"
    /\ requests' = [requests EXCEPT ![f] = @ + 1]
    /\ fret' = [fret EXCEPT ![f] = NoContent]
    /\ fpc' = [fpc EXCEPT ![f] = "done"]
    /\ file' = IF use_cache THEN [file EXCEPT ![fkey[f]] = <<>>] ELSE file
    /\ UNCHANGED <<use_cache, hashseed, served, fkey, fcontent, woff, seen,
                   readfail>>

\* session.get(url) answers another status, or raises: None is returned
NetFails(f) ==
    /\ fpc[f] = "net"
    /\ requests' = [requests EXCEPT ![f] = @ + 1]
    /\ fret' = [fret EXCEPT ![f] = NoContent]
    /\ fpc' = [fpc EXCEPT ![f] = "done"]
    /\ UNCHANGED <<use_cache, hashseed, file, served, fkey, fcontent, woff,
                   seen, readfail>>

\* aiofiles.open(cache_file, 'w'): the file is created or truncated in place
OpenForWrite(f) ==
    /\ fpc[f] = "open_w"
    /\ file' = [file EXCEPT ![fkey[f]] = <<>>]
    /\ woff' = [woff EXCEPT ![f] = 0]
    /\ fpc' = [fpc EXCEPT ![f] = "write"]
    /\ UNCHANGED <<use_cache, hashseed, served, fkey, fcontent, fret, requests,
                   seen, readfail>>

\* the open raises: logged, content is returned
OpenForWriteFails(f) ==
    /\ fpc[f] = "open_w"
    /\ fret' = [fret EXCEPT ![f] = fcontent[f]]
    /\ fpc' = [fpc EXCEPT ![f] = "done"]
    /\ UNCHANGED <<use_cache, hashseed, file, served, fkey, fcontent, woff,
                   requests, seen, readfail>>

\* f.write(content) reaches the file piece by piece, at the handle's own
\* offset; after the last piece the file is closed and content returned
WriteChunk(f) ==
    /\ fpc[f] = "write"
    /\ woff[f] < Len(fcontent[f])
    /\ file' = [file EXCEPT ![fkey[f]] =
                  WriteAt(@, woff[f], WriteText(fcontent[f], linesep)[woff[f] + 1])]
    /\ woff' = [woff EXCEPT ![f] = @ + 1]
    /\ IF woff'[f] = Len(fcontent[f])
         THEN fpc' = [fpc EXCEPT ![f] = "done"] /\ fret' = [fret EXCEPT ![f] = fcontent[f]]
         ELSE UNCHANGED <<fpc, fret>>
    /\ UNCHANGED <<use_cache, hashseed, served, fkey, fcontent, requests,
                   seen, readfail>>

\* the write raises: logged, content is returned, the file stays as it is
WriteFails(f) ==
    /\ fpc[f] = "write"
    /\ fret' = [fret EXCEPT ![f] = fcontent[f]]
    /\ fpc' = [fpc EXCEPT ![f] = "done"]
    /\ UNCHANGED <<use_cache, hashseed, file, served, fkey, fcontent, woff,
                   requests, seen, readfail>>

\* the keys the callers of one process use
CallKeys == {MainKey(StartYear)} \cup {PaperKey(hashseed, u) : u \in URLs}

(***************************************************************************)
(* scrape_year for one year of the flat layout (year <= 2015), run twice   *)
(* over the same cache directory with caching on: the run, and a re-run    *)
(* that may be a new process.  Each get_cached_or_fetch is one step here   *)
(* (the calls of the two runs do not overlap), and cache I/O errors are    *)
(* left out.                                                               *)
(***************************************************************************)
Runs == 1..2

\* the index page (base_url) among the targets of requests; the paper pages
\* are the URLs
IndexPage == 0

Targets == URLs \cup {IndexPage}

\* how one get_cached_or_fetch ends: "hit" (the cache file is returned), "ok"
\* (the GET answers 200), "failed" (another status, or the GET raised)
FetchEnd(hit, ok) == IF hit THEN "hit" ELSE IF ok THEN "ok" ELSE "failed"

\* a slip: a failed GET is tried once more
RequestsWithRetry(fetch) == IF fetch = "hit" THEN 0 ELSE IF fetch = "failed" THEN 2 ELSE 1

\* the session.get requests of one get_cached_or_fetch: none when the cache
\* file is returned, otherwise the one `async with session.get(url)`
Requests(fetch) == IF fetch = "hit" THEN 0 ELSE 1

\* the index page that lists the paper links S: one place per URL, "a" where
\* the page has a link to it
IndexBody(S) == [u \in URLs |-> IF u \in S THEN "a" ELSE "-"]

\* the links get_paper_urls_for_year finds in an index page
LinksOf(content) == {u \in DOMAIN content : content[u] = "a"}

RerunIdle ==
    /\ run = 1
    /\ rpc = "idle"
    /\ todo = {}
    /\ run_seed = [r \in Runs |-> 1]
    /\ run_urls = [r \in Runs |-> {}]
    /\ run_records = [r \in Runs |-> {}]
    /\ run_net = [r \in Runs |-> {}]
    /\ run_ok = [r \in Runs |-> TRUE]
    /\ run_gets = [r \in Runs |-> [t \in Targets |-> 0]]

\* the first process starts, the cache directory is empty
RerunInit ==
    /\ run = 1
    /\ rpc = "index"
    /\ todo = {}
    /\ hashseed \in Seeds
    /\ run_seed = [r \in Runs |-> hashseed]
    /\ run_urls = [r \in Runs |-> {}]
    /\ run_records = [r \in Runs |-> {}]
    /\ run_net = [r \in Runs |-> {}]
    /\ run_ok = [r \in Runs |-> TRUE]
    /\ run_gets = [r \in Runs |-> [t \in Targets |-> 0]]
    /\ use_cache = TRUE
    /\ file = [k \in CacheKeys |-> Absent]
    /\ served = [k \in CacheKeys |-> {}]
    /\ fpc = [f \in Fetches |-> "idle"]
    /\ fkey = [f \in Fetches |-> MainKey(StartYear)]
    /\ fcontent = [f \in Fetches |-> <<>>]
    /\ woff = [f \in Fetches |-> 0]
    /\ fret = [f \in Fetches |-> NoContent]
    /\ requests = [f \in Fetches |-> 0]
    /\ seen = [f \in Fetches |-> Absent]
    /\ readfail = [f \in Fetches |-> FALSE]

\* get_paper_urls_for_year: get_cached_or_fetch(base_url, f"cvpr_{year}_main"),
\* then the links of the page; on a miss the server lists S (ok) or fails
RunIndex(S, ok) ==
    /\ rpc = "index"
    /\ LET k == MainKey(StartYear)
           hit == CacheHit(k)
           content == IF hit THEN file[k] ELSE IF ok THEN IndexBody(S) ELSE NoContent
           urls == IF content = NoContent THEN {} ELSE LinksOf(content)
       IN  /\ run_net' = [run_net EXCEPT ![run] = IF hit THEN @ ELSE @ \cup {IndexPage}]
           /\ run_gets' = [run_gets EXCEPT ![run][IndexPage] = @ + Requests(FetchEnd(hit, ok))]
           /\ file' = IF ~hit /\ ok THEN [file EXCEPT ![k] = IndexBody(S)] ELSE file
           /\ run_ok' = [run_ok EXCEPT ![run] = @ /\ content /= NoContent]
           /\ run_urls' = [run_urls EXCEPT ![run] = urls]
           /\ todo' = urls
           /\ rpc' = IF urls = {} THEN "finished" ELSE "pages"
    /\ UNCHANGED <<run, run_seed, run_records, use_cache, hashseed, served,
                   fpc, fkey, fcontent, woff, fret, requests, seen, readfail>>

\* scrape_paper(session, url, year): get_cached_or_fetch(url, f"paper_{hash(url)}"),
\* then the Paper of the page; on a miss the server sends body (ok) or fails
RunPage(u, body, ok) ==
    /\ rpc = "pages"
    /\ u \in todo
    /\ LET k == PaperKey(hashseed, u)
           hit == CacheHit(k)
           content == IF hit THEN file[k] ELSE IF ok THEN body ELSE NoContent
       IN  /\ run_net' = [run_net EXCEPT ![run] = IF hit THEN @ ELSE @ \cup {u}]
           /\ run_gets' = [run_gets EXCEPT ![run][u] = @ + Requests(FetchEnd(hit, ok))]
           /\ file' = IF ~hit /\ ok THEN [file EXCEPT ![k] = body] ELSE file
           /\ run_ok' = [run_ok EXCEPT ![run] = @ /\ content /= NoContent]
           /\ run_records' = [run_records EXCEPT ![run] =
                                IF content = NoContent THEN @ ELSE @ \cup {<<u, content>>}]
    /\ todo' = todo \ {u}
    /\ rpc' = IF todo' = {} THEN "finished" ELSE "pages"
    /\ UNCHANGED <<run, run_seed, run_urls, use_cache, hashseed, served, fpc,
                   fkey, fcontent, woff, fret, requests, seen, readfail>>

\* the partition is run again: by the same process, or by a new one, whose
\* hash() has a seed of its own
Rerun(seed) ==
    /\ rpc = "finished"
    /\ run = 1
    /\ run' = 2
    /\ hashseed' = seed
    /\ run_seed' = [run_seed EXCEPT ![2] = seed]
    /\ rpc' = "index"
    /\ UNCHANGED <<todo, run_urls, run_records, run_net, run_ok, run_gets, use_cache,
                   file, served, fpc, fkey, fcontent, woff, fret, requests,
                   seen, readfail>>

(***************************************************************************)
(* get_paper_urls_for_year, and the tasks scrape_year makes from what it   *)
(* returns.  A link is kept by the URL its href resolves to and by the     *)
(* tests of the scan loops that its href passes.                           *)
(***************************************************************************)
\* the last year of the flat layout: `if year <= 2015`
LastFlatYear == 2015

FlatLayout(y) == y <= LastFlatYear

\* a link: the url urljoin gives for its href; flat: the href ends in '.html',
\* has '_' and does not start with 'http'; paper: f'CVPR{year}' and
\* 'paper.html' are in the href; legacy: f'cvpr_{year}' and '.html' are
PageLinks == [url : URLs, flat : BOOLEAN, paper : BOOLEAN, legacy : BOOLEAN]

\* the test of the scan loop (the `if` / `elif` of the new layout append the
\* same full_url)
Matches(y, l) == IF FlatLayout(y) THEN l.flat ELSE l.paper \/ l.legacy

\* a slip: the list is returned as it was collected
KeepAll(s) == {s}

\* list(set(paper_urls)): the distinct elements, in an order the set decides
DedupLists(s) ==
    LET S == Range(s)
    IN  {q \in [1..Cardinality(S) -> S] : Range(q) = S}

DiscoverIdle ==
    /\ dpc = "idle"
    /\ d_year = StartYear
    /\ d_links = <<>>
    /\ d_pos = 1
    /\ d_urls = <<>>
    /\ d_tasks = <<>>

\* get_paper_urls_for_year(session, year) is called
DiscoverInit ==
    /\ dpc = "index"
    /\ d_year \in AllYears
    /\ d_links = <<>>
    /\ d_pos = 1
    /\ d_urls = <<>>
    /\ d_tasks = <<>>

\* the index page: `if not content: return []`; in the flat layout its links
\* are scanned, otherwise the listing page is fetched next
IndexFetched(ok, links) ==
    /\ dpc = "index"
    /\ IF ~ok THEN dpc' = "returned" /\ UNCHANGED d_links
       ELSE IF FlatLayout(d_year) THEN dpc' = "scan" /\ d_links' = links
       ELSE dpc' = "listing" /\ UNCHANGED d_links
    /\ UNCHANGED <<d_year, d_pos, d_urls, d_tasks>>

\* the listing page of the new layout: `if listing_content:` its links are
\* scanned
ListingFetched(ok, links) ==
    /\ dpc = "listing"
    /\ IF ok THEN dpc' = "scan" /\ d_links' = links
       ELSE dpc' = "dedup" /\ UNCHANGED d_links
    /\ UNCHANGED <<d_year, d_pos, d_urls, d_tasks>>

\* one iteration of `for link in links`
ScanLink ==
    /\ dpc = "scan"
    /\ d_pos <= Len(d_links)
    /\ d_urls' = IF Matches(d_year, d_links[d_pos])
                   THEN Append(d_urls, d_links[d_pos].url) ELSE d_urls
    /\ d_pos' = d_pos + 1
    /\ UNCHANGED <<dpc, d_year, d_links, d_tasks>>

\* the scan loop runs out of links
ScanEnd ==
    /\ dpc = "scan"
    /\ d_pos > Len(d_links)
    /\ dpc' = "dedup"
    /\ UNCHANGED <<d_year, d_links, d_pos, d_urls, d_tasks>>

\* paper_urls = list(set(paper_urls)); return paper_urls
Dedup(order) ==
    /\ dpc = "dedup"
    /\ order \in DedupLists(d_urls)
    /\ d_urls' = order
    /\ dpc' = "returned"
    /\ UNCHANGED <<d_year, d_links, d_pos, d_tasks>>

\* scrape_year: `if not paper_urls: return []`, else
\* tasks = [scrape_with_semaphore(url) for url in paper_urls]
Schedule ==
    /\ dpc = "returned"
    /\ d_tasks' = IF NoPaperUrls(Range(d_urls)) THEN <<>> ELSE d_urls
    /\ dpc' = "done"
    /\ UNCHANGED <<d_year, d_links, d_pos, d_urls>>

(***************************************************************************)
(* The keyword tools: analyze_papers (cvpr_keyword_stats.py) and           *)
(* aggregate_by_year (plot_keyword_trends_xkcd.py) over the records the    *)
(* scraper wrote: the year is an integer and the title is stripped and not *)
(* empty.  A text is a sequence of words.                                  *)
(***************************************************************************)
\* --keywords
Keywords == {"robot", "embodied"}
StatTitles == {<<"the">>, <<"Robot">>, <<"robots">>}
StatAbstracts == {<<"the">>, <<"embodied">>}
StatPapers == [year : AllYears, title : StatTitles, abstract : StatAbstracts]

\* str.lower() of a word
Lower(w) == IF w = "Robot" THEN "robot" ELSE w

\* inflect's plural of a lower-case word
Plural(w) ==
    IF w = "robot" THEN "robots"
    ELSE IF w = "embodied" THEN "embodieds"
    ELSE w

\* f"{title} {abstract}"
CombinedText(title_, abstract_) == title_ \o abstract_

\* search_keywords_in_text: re.search(r'\b' + keyword.lower() + r'\b', text.lower())
search_keywords_in_text(text, keywords) ==
    {k \in keywords : \E i \in DOMAIN text : Lower(text[i]) = Lower(k)}

\* _keyword_variants: the base and its plural
keyword_variants(base) == {Lower(base), Plural(Lower(base))}

\* search_keywords: the keywords one of whose variants is a word of the text
search_keywords(text, keywords) ==
    {k \in keywords : \E i \in DOMAIN text : Lower(text[i]) \in keyword_variants(k)}

\* year_any_titles[year].add(title)
AddTitle(titles, title_) == titles \cup {title_}

\* {yr: len(titles) for yr, titles in year_any_titles.items()}: a year is a
\* key of year_any_titles once a title was added for it
AnyCounts(any_titles) ==
    [y \in {yr \in AllYears : any_titles[yr] /= {}} |-> Cardinality(any_titles[y])]

\* year_any_counts.get(year, 0), as print_statistics and plot_trends read it
AnyCount(y) == IF y \in DOMAIN year_any_counts THEN year_any_counts[y] ELSE 0

StatIdle ==
    /\ k_tool = "analyze_papers"
    /\ kpc = "idle"
    /\ k_papers = <<>>
    /\ k_pos = 1
    /\ year_stats = [y \in AllYears |-> [k \in Keywords |-> 0]]
    /\ year_totals = [y \in AllYears |-> 0]
    /\ keyword_papers = [k \in Keywords |-> <<>>]
    /\ year_any_titles = [y \in AllYears |-> {}]
    /\ year_any_counts = <<>>

\* one of the two tools is called on a list of records; the defaultdicts
\* are empty
StatInit ==
    /\ k_tool \in {"analyze_papers", "aggregate_by_year"}
    /\ kpc = "loop"
    /\ k_papers \in SeqsUpTo(StatPapers, MaxPapers)
    /\ k_pos = 1
    /\ year_stats = [y \in AllYears |-> [k \in Keywords |-> 0]]
    /\ year_totals = [y \in AllYears |-> 0]
    /\ keyword_papers = [k \in Keywords |-> <<>>]
    /\ year_any_titles = [y \in AllYears |-> {}]
    /\ year_any_counts = <<>>

\* one iteration of `for paper in papers` of analyze_papers
AnalyzeStep ==
    /\ k_tool = "analyze_papers"
    /\ kpc = "loop"
    /\ k_pos <= Len(k_papers)
    /\ LET paper == k_papers[k_pos]
           year == paper.year
           found_keywords ==
               search_keywords_in_text(CombinedText(paper.title, paper.abstract), Keywords)
       IN  /\ year_totals' = [year_totals EXCEPT ![year] = @ + 1]
           /\ year_stats' = [year_stats EXCEPT ![year] =
                   [k \in Keywords |-> IF k \in found_keywords THEN @[k] + 1 ELSE @[k]]]
           /\ keyword_papers' = [k \in Keywords |->
                   IF k \in found_keywords
                     THEN Append(keyword_papers[k], [year |-> year, title |-> paper.title])
                     ELSE keyword_papers[k]]
           /\ year_any_titles' =
                   IF found_keywords /= {}
                     THEN [year_any_titles EXCEPT ![year] = AddTitle(@, paper.title)]
                     ELSE year_any_titles
    /\ k_pos' = k_pos + 1
    /\ UNCHANGED <<k_tool, kpc, k_papers, year_any_counts>>

\* the loop of analyze_papers is over: year_any_counts is computed and returned
AnalyzeReturn ==
    /\ k_tool = "analyze_papers"
    /\ kpc = "loop"
    /\ k_pos > Len(k_papers)
    /\ year_any_counts' = AnyCounts(year_any_titles)
    /\ kpc' = "returned"
    /\ UNCHANGED <<k_tool, k_papers, k_pos, year_stats, year_totals,
                   keyword_papers, year_any_titles>>

\* one iteration of `for p in papers` of aggregate_by_year
AggregateStep ==
    /\ k_tool = "aggregate_by_year"
    /\ kpc = "loop"
    /\ k_pos <= Len(k_papers)
    /\ LET p == k_papers[k_pos]
           year == p.year
           title_ == Strip(p.title)
           hits == search_keywords(CombinedText(title_, p.abstract), Keywords)
       IN  /\ year_totals' = [year_totals EXCEPT ![year] = @ + 1]
           /\ year_any_titles' =
                   IF hits /= {}
                     THEN [year_any_titles EXCEPT ![year] = AddTitle(@, title_)]
                     ELSE year_any_titles
           /\ year_stats' = [year_stats EXCEPT ![year] =
                   [k \in Keywords |-> IF k \in hits THEN @[k] + 1 ELSE @[k]]]
    /\ k_pos' = k_pos + 1
    /\ UNCHANGED <<k_tool, kpc, k_papers, keyword_papers, year_any_counts>>

\* the loop of aggregate_by_year is over: year_any_counts is computed and returned
AggregateReturn ==
    /\ k_tool = "aggregate_by_year"
    /\ kpc = "loop"
    /\ k_pos > Len(k_papers)
    /\ year_any_counts' = AnyCounts(year_any_titles)
    /\ kpc' = "returned"
    /\ UNCHANGED <<k_tool, k_papers, k_pos, year_stats, year_totals,
                   keyword_papers, year_any_titles>>

(***************************************************************************)
(* The specifications.                                                     *)
(***************************************************************************)
\* a run of scrape_all_years
Init == SchedInit /\ ExtractIdle /\ CacheIdle /\ TextIdle /\ RerunIdle /\ DiscoverIdle /\ StatIdle
Next ==
    \/ Gather /\ UNCHANGED <<extractVars, cacheVars, textVars, rerunVars, discoverVars, statVars>>
    \/ GatherReturns /\ UNCHANGED <<extractVars, cacheVars, textVars, rerunVars, discoverVars, statVars>>
    \/ MergeStep /\ UNCHANGED <<extractVars, cacheVars, textVars, rerunVars, discoverVars, statVars>>
    \/ SeqStart /\ UNCHANGED <<extractVars, cacheVars, textVars, rerunVars, discoverVars, statVars>>
    \/ SeqStep /\ UNCHANGED <<extractVars, cacheVars, textVars, rerunVars, discoverVars, statVars>>
    \/ \E y \in AllYears, S \in SUBSET URLs : Discover(y, S) /\ UNCHANGED <<extractVars, cacheVars, textVars, rerunVars, discoverVars, statVars>>
    \/ \E y \in AllYears : DiscoverRaises(y) /\ UNCHANGED <<extractVars, cacheVars, textVars, rerunVars, discoverVars, statVars>>
    \/ \E y \in AllYears, u \in URLs : Admit(y, u) /\ UNCHANGED <<extractVars, cacheVars, textVars, rerunVars, discoverVars, statVars>>
    \/ \E y \in AllYears, u \in URLs, fetch \in FetchEnds, ok \in BOOLEAN : Finish(y, u, fetch, ok) /\ UNCHANGED <<extractVars, cacheVars, textVars, rerunVars, discoverVars, statVars>>
Spec == Init /\ [][Next]_vars

\* a run of scrape_all_years on an event loop that keeps running whatever is
\* ready: a step that can be taken is eventually taken
SpecLive == Init /\ [][Next]_vars /\ WF_vars(Next)

\* one call of scrape_paper
InitExtract == SchedIdle /\ ExtractInit /\ CacheIdle /\ TextIdle /\ RerunIdle /\ DiscoverIdle /\ StatIdle
NextExtract ==
    \/ \E ok \in BOOLEAN : FetchContent(ok) /\ UNCHANGED <<schedVars, cacheVars, textVars, rerunVars, discoverVars, statVars>>
    \/ \E found \in BOOLEAN, text \in TitleTexts : TitleStep(found, text) /\ UNCHANGED <<schedVars, cacheVars, textVars, rerunVars, discoverVars, statVars>>
    \/ \E found \in BOOLEAN, text \in AuthorTexts : AuthorStep(found, text) /\ UNCHANGED <<schedVars, cacheVars, textVars, rerunVars, discoverVars, statVars>>
    \/ \E elem \in AuthorTexts : EmphasisStep(elem) /\ UNCHANGED <<schedVars, cacheVars, textVars, rerunVars, discoverVars, statVars>>
    \/ EmphasisEnd /\ UNCHANGED <<schedVars, cacheVars, textVars, rerunVars, discoverVars, statVars>>
    \/ \E found \in BOOLEAN, text \in AbstractTexts : AbstractStep(found, text) /\ UNCHANGED <<schedVars, cacheVars, textVars, rerunVars, discoverVars, statVars>>
    \/ \E p \in ParagraphTexts : ParagraphStep(p) /\ UNCHANGED <<schedVars, cacheVars, textVars, rerunVars, discoverVars, statVars>>
    \/ ParagraphEnd /\ UNCHANGED <<schedVars, cacheVars, textVars, rerunVars, discoverVars, statVars>>
    \/ \E l \in Links : LinkStep(l) /\ UNCHANGED <<schedVars, cacheVars, textVars, rerunVars, discoverVars, statVars>>
    \/ LinkEnd /\ UNCHANGED <<schedVars, cacheVars, textVars, rerunVars, discoverVars, statVars>>
    \/ Emit /\ UNCHANGED <<schedVars, cacheVars, textVars, rerunVars, discoverVars, statVars>>
    \/ ScrapeRaises /\ UNCHANGED <<schedVars, cacheVars, textVars, rerunVars, discoverVars, statVars>>
SpecExtract == InitExtract /\ [][NextExtract]_vars

\* one text through the cache file
InitText == SchedIdle /\ ExtractIdle /\ CacheIdle /\ TextInit /\ RerunIdle /\ DiscoverIdle /\ StatIdle
NextText ==
    \/ CachePut /\ UNCHANGED <<schedVars, extractVars, cacheVars, rerunVars, discoverVars, statVars>>
    \/ CacheGet /\ UNCHANGED <<schedVars, extractVars, cacheVars, rerunVars, discoverVars, statVars>>
SpecText == InitText /\ [][NextText]_vars

\* overlapping calls of get_cached_or_fetch in one process
InitCache == SchedIdle /\ ExtractIdle /\ CacheInit /\ TextIdle /\ RerunIdle /\ DiscoverIdle /\ StatIdle
NextCache ==
    \/ \E f \in Fetches, k \in CallKeys : Call(f, k) /\ UNCHANGED <<schedVars, extractVars, textVars, rerunVars, discoverVars, statVars>>
    \/ \E f \in Fetches, k \in CallKeys : ExistsRaises(f, k) /\ UNCHANGED <<schedVars, extractVars, textVars, rerunVars, discoverVars, statVars>>
    \/ \E f \in Fetches : CacheRead(f) /\ UNCHANGED <<schedVars, extractVars, textVars, rerunVars, discoverVars, statVars>>
    \/ \E f \in Fetches : CacheReadFails(f) /\ UNCHANGED <<schedVars, extractVars, textVars, rerunVars, discoverVars, statVars>>
    \/ \E f \in Fetches, body \in Bodies : NetOk(f, body) /\ UNCHANGED <<schedVars, extractVars, textVars, rerunVars, discoverVars, statVars>>
    \/ \E f \in Fetches : NetFails(f) /\ UNCHANGED <<schedVars, extractVars, textVars, rerunVars, discoverVars, statVars>>
    \/ \E f \in Fetches : OpenForWrite(f) /\ UNCHANGED <<schedVars, extractVars, textVars, rerunVars, discoverVars, statVars>>
    \/ \E f \in Fetches : OpenForWriteFails(f) /\ UNCHANGED <<schedVars, extractVars, textVars, rerunVars, discoverVars, statVars>>
    \/ \E f \in Fetches : WriteChunk(f) /\ UNCHANGED <<schedVars, extractVars, textVars, rerunVars, discoverVars, statVars>>
    \/ \E f \in Fetches : WriteFails(f) /\ UNCHANGED <<schedVars, extractVars, textVars, rerunVars, discoverVars, statVars>>
SpecCache == InitCache /\ [][NextCache]_vars

\* one call of get_paper_urls_for_year, and the tasks made from its result
InitDiscover == SchedIdle /\ ExtractIdle /\ CacheIdle /\ TextIdle /\ RerunIdle /\ DiscoverInit /\ StatIdle
NextDiscover ==
    \/ dpc = "index" /\ \E ok \in BOOLEAN, links \in SeqsUpTo(PageLinks, MaxElems) : IndexFetched(ok, links) /\ UNCHANGED <<schedVars, extractVars, cacheVars, textVars, rerunVars, statVars>>
    \/ dpc = "listing" /\ \E ok \in BOOLEAN, links \in SeqsUpTo(PageLinks, MaxElems) : ListingFetched(ok, links) /\ UNCHANGED <<schedVars, extractVars, cacheVars, textVars, rerunVars, statVars>>
    \/ ScanLink /\ UNCHANGED <<schedVars, extractVars, cacheVars, textVars, rerunVars, statVars>>
    \/ ScanEnd /\ UNCHANGED <<schedVars, extractVars, cacheVars, textVars, rerunVars, statVars>>
    \/ \E order \in DedupLists(d_urls) : Dedup(order) /\ UNCHANGED <<schedVars, extractVars, cacheVars, textVars, rerunVars, statVars>>
    \/ Schedule /\ UNCHANGED <<schedVars, extractVars, cacheVars, textVars, rerunVars, statVars>>
SpecDiscover == InitDiscover /\ [][NextDiscover]_vars

\* a partition scraped, and scraped again over the cache the first run left
InitRerun == SchedIdle /\ ExtractIdle /\ TextIdle /\ RerunInit /\ DiscoverIdle /\ StatIdle
NextRerun ==
    \/ \E S \in SUBSET URLs, ok \in BOOLEAN : RunIndex(S, ok) /\ UNCHANGED <<schedVars, extractVars, textVars, discoverVars, statVars>>
    \/ \E u \in URLs, body \in Bodies, ok \in BOOLEAN : RunPage(u, body, ok) /\ UNCHANGED <<schedVars, extractVars, textVars, discoverVars, statVars>>
    \/ \E seed \in Seeds : Rerun(seed) /\ UNCHANGED <<schedVars, extractVars, textVars, discoverVars, statVars>>
SpecRerun == InitRerun /\ [][NextRerun]_vars

\* one call of a keyword tool
InitStat == SchedIdle /\ ExtractIdle /\ CacheIdle /\ TextIdle /\ RerunIdle /\ DiscoverIdle /\ StatInit
NextStat ==
    \/ AnalyzeStep /\ UNCHANGED <<schedVars, extractVars, cacheVars, textVars, rerunVars, discoverVars>>
    \/ AnalyzeReturn /\ UNCHANGED <<schedVars, extractVars, cacheVars, textVars, rerunVars, discoverVars>>
    \/ AggregateStep /\ UNCHANGED <<schedVars, extractVars, cacheVars, textVars, rerunVars, discoverVars>>
    \/ AggregateReturn /\ UNCHANGED <<schedVars, extractVars, cacheVars, textVars, rerunVars, discoverVars>>
SpecStat == InitStat /\ [][NextStat]_vars

(***************************************************************************)
(* Properties of the scheduler (checked under Spec).                       *)
(***************************************************************************)
\* the units of year y that hold the semaphore
InFlight(y) == {u \in URLs : upc[y][u] = "inflight"}

TotalInFlight == SeqSum([i \in 1..MaxYears |-> Cardinality(InFlight(StartYear + i - 1))])

\* the Records of the years from y on that ended without an error, in key order
RECURSIVE ResultsFrom(_)
ResultsFrom(y) ==
    IF y > end_year THEN <<>>
    ELSE (IF ypc[y] = "raised" THEN <<>> ELSE papers[y]) \o ResultsFrom(y + 1)

CheckpointYears == [i \in DOMAIN checkpoints |-> checkpoints[i].year]

RecordUrls(recs) == {recs[i].url : i \in DOMAIN recs}

\* C1: in the parallel branch, the units in flight summed over all the
\* years never exceed max_concurrent (one gate shared by all partitions).
C1_SharedGate ==
    ParallelBranch => TotalInFlight <= max_concurrent

\* C3: with parallel_years set, for every range, a year whose scrape_year
\* raises does not stop scrape_all_years: it returns, and what it returns is
\* exactly the Records of the other years.
C3_ParallelIsolation ==
    parallel_years =>
        /\ opc /= "raised"
        /\ opc = "returned" => all_papers = ResultsFrom(StartYear)

\* C4: in the sequential branch an error of one year is caught: the run
\* still returns, keeps what it accumulated and checkpoints every other year.
C4_SequentialIsolation ==
    (~parallel_years /\ \E y \in years : ypc[y] = "raised") =>
        /\ opc /= "raised"
        /\ opc = "returned" =>
              /\ all_papers = ResultsFrom(StartYear)
              /\ \A y \in years : ypc[y] /= "raised" =>
                                     \E i \in DOMAIN checkpoints : checkpoints[i].year = y

\* C8: each checkpoint written has at least as many Records as the one
\* written before it and contains every url of it.
C8_CheckpointsAdditive ==
    \A i \in DOMAIN checkpoints : \A j \in DOMAIN checkpoints :
        i < j =>
            /\ Len(checkpoints[i].records) <= Len(checkpoints[j].records)
            /\ RecordUrls(checkpoints[i].records) \subseteq RecordUrls(checkpoints[j].records)

\* C8 witness: two checkpoints written, the first non-empty, the second larger
C8_Witness ==
    /\ Len(checkpoints) >= 2
    /\ Len(checkpoints[1].records) > 0
    /\ Len(checkpoints[2].records) > Len(checkpoints[1].records)

FailedFetches(y) == {u \in URLs : fetch_log[y][u] = "failed"}

\* C11: a unit whose fetch ends in a non-200 status or a transport error
\* gives no Record and is counted as failed; the step that ends it leaves
\* every sibling unit, every other year and scrape_all_years as they were,
\* and a year that is done has an outcome for every discovered URL.
C11_FetchFailureIsolated ==
    /\ [](\A y \in AllYears :
            /\ failed_count[y] >= Cardinality(FailedFetches(y))
            /\ Range(papers[y]) \cap {Paper(y, u) : u \in FailedFetches(y)} = {}
            /\ FailedFetches(y) /= {} => ypc[y] \in {"fetching", "done"}
            /\ ypc[y] = "done" =>
                  /\ \A u \in paper_urls[y] : upc[y][u] = "finished"
                  /\ Len(papers[y]) + failed_count[y] = Cardinality(paper_urls[y]))
    /\ [][\A y \in AllYears, u \in URLs :
            (fetch_log[y][u] = "none" /\ fetch_log'[y][u] = "failed") =>
                /\ failed_count'[y] = failed_count[y] + 1
                /\ papers' = papers
                /\ opc' = opc
                /\ \A v \in URLs \ {u} : upc'[y][v] = upc[y][v]
                /\ \A z \in AllYears \ {y} : upc'[z] = upc[z] /\ ypc'[z] = ypc[z]]_vars

\* C11 witness: a year is done, one of its fetches failed and a sibling
\* unit's Paper is in its result
C11_Witness ==
    \E y \in AllYears :
        /\ ypc[y] = "done"
        /\ FailedFetches(y) /= {}
        /\ papers[y] /= <<>>

\* C14: within one scrape_year, the units that hold the semaphore are never
\* more than max_concurrent.
C14_PartitionGate ==
    \A y \in AllYears :
        /\ Cardinality(InFlight(y)) <= max_concurrent
        /\ semaphore[y] >= 0

\* C14 witness: a year has max_concurrent units in flight and one waiting
C14_Witness ==
    \E y \in AllYears :
        /\ Cardinality(InFlight(y)) = max_concurrent
        /\ \E u \in URLs : upc[y][u] = "waiting"

\* C15: no two Records of the accumulator have the same url.
C15_UniqueUrls ==
    \A i \in DOMAIN all_papers : \A j \in DOMAIN all_papers :
        i /= j => all_papers[i].url /= all_papers[j].url

\* C16: a year whose discovery gave no URL is done at once with an empty
\* result: no unit, no fetch of a paper page, nothing counted as failed; and
\* the step that completes it leaves the other years and scrape_all_years
\* as they were.
C16_EmptyDiscovery ==
    /\ [](\A y \in AllYears :
            (paper_urls[y] = {} /\ ypc[y] \notin {"pending", "discovering", "raised"}) =>
                /\ ypc[y] = "done"
                /\ papers[y] = <<>>
                /\ failed_count[y] = 0
                /\ \A u \in URLs : upc[y][u] = "none" /\ fetch_log[y][u] = "none")
    /\ [][\A y \in AllYears :
            (ypc[y] = "discovering" /\ ypc'[y] = "done") =>
                /\ opc' = opc
                /\ \A z \in AllYears \ {y} :
                      /\ ypc'[z] = ypc[z]
                      /\ upc'[z] = upc[z]
                      /\ semaphore'[z] = semaphore[z]
                      /\ papers'[z] = papers[z]]_vars

\* C16 witness: the first year to complete found no URL, another year gave
\* Records afterwards, and the run returned them
C16_Witness ==
    /\ opc = "returned"
    /\ all_papers /= <<>>
    /\ completed /= <<>>
    /\ paper_urls[completed[1]] = {}
    /\ ypc[completed[1]] = "done"

\* C19: only a step of scrape_all_years (the merge loop, the sequential
\* loop) changes the accumulator, and such a step changes nothing of the
\* years; a year's result list changes only by a unit of that year
\* finishing, while the year is running.
C19_AccumulatorOwner ==
    [][/\ all_papers' /= all_papers =>
            /\ opc \in {"merge", "seq"}
            /\ papers' = papers
            /\ upc' = upc
            /\ ypc' = ypc
            /\ fetch_log' = fetch_log
       /\ \A y \in AllYears :
            papers'[y] /= papers[y] =>
                /\ ypc[y] = "fetching"
                /\ \E u \in URLs : upc[y][u] = "inflight" /\ upc'[y][u] = "finished"
                /\ \A z \in AllYears \ {y} : papers'[z] = papers[z]
                /\ all_papers' = all_papers]_vars

\* C19 witness: units filled two years' result lists and the run returned
\* the accumulator merged from them
C19_Witness ==
    /\ opc = "returned"
    /\ Len(all_papers) >= 2
    /\ \A y \in years : papers[y] /= <<>>
    /\ Cardinality(years) > 1

\* C20: every waiting unit is admitted and finishes, every year that runs
\* reaches done, and scrape_all_years returns.
C20_Terminates ==
    /\ \A y \in AllYears, u \in URLs :
          (upc[y][u] = "waiting") ~> (upc[y][u] = "finished")
    /\ \A y \in AllYears : (ypc[y] = "fetching") ~> (ypc[y] = "done")
    /\ <>(opc = "returned")

\* C21: once scrape_all_years has returned, every year of the range has
\* exactly one checkpoint, named by the year and holding the year's Records;
\* also a year that gave no Records (no URL found, or an error that was
\* caught).
C21_CheckpointPerYear ==
    opc = "returned" =>
        \A y \in years :
            /\ Cardinality({i \in DOMAIN checkpoints : checkpoints[i].year = y}) = 1
            /\ \A i \in DOMAIN checkpoints :
                  checkpoints[i].year = y =>
                      Range(papers[y]) \subseteq Range(checkpoints[i].records)

\* C24: whatever parallel_years is, a run ends by returning a list, and the
\* list is the Records of the years that ended without an error, each once,
\* in year order, and nothing else.
C24_FullAccumulation ==
    /\ opc /= "raised"
    /\ opc = "returned" =>
          /\ all_papers = ResultsFrom(StartYear)
          /\ \A y \in years : \A u \in URLs :
                Cardinality({i \in DOMAIN all_papers : all_papers[i] = Paper(y, u)})
                    = IF Paper(y, u) \in Range(papers[y]) /\ ypc[y] = "done" THEN 1 ELSE 0

\* C25: in the sequential branch at most one year is discovering or
\* fetching, and a year has started only if every year before it is done
\* and has its checkpoint.
C25_OneAtATime ==
    ~ParallelBranch =>
        /\ Cardinality({y \in years : ypc[y] \in {"discovering", "fetching"}}) <= 1
        /\ \A y \in years :
              ypc[y] /= "pending" =>
                  \A z \in years :
                      z < y => /\ ypc[z] = "done"
                               /\ \E i \in DOMAIN checkpoints : checkpoints[i].year = z

\* C25 witness: the sequential branch is fetching its second year
C25_Witness ==
    /\ ~parallel_years
    /\ ypc[StartYear] = "done"
    /\ ypc[StartYear + 1] = "fetching"

\* C26: a year with discovered URLs that is done has one outcome per URL:
\* Records plus failures equal the URLs, the Records are of distinct
\* discovered URLs and carry the year.
C26_EveryUrlOnce ==
    \A y \in AllYears :
        (ypc[y] = "done" /\ paper_urls[y] /= {}) =>
            /\ Len(papers[y]) + failed_count[y] = Cardinality(paper_urls[y])
            /\ \A i \in DOMAIN papers[y] :
                  /\ papers[y][i].url \in paper_urls[y]
                  /\ papers[y][i].year = y
                  /\ \A j \in DOMAIN papers[y] : i /= j => papers[y][i].url /= papers[y][j].url

\* C26 witness: a later year of the range is done with two URLs, one Record
\* and one failure
C26_Witness ==
    \E y \in AllYears :
        /\ y > StartYear
        /\ ypc[y] = "done"
        /\ Cardinality(paper_urls[y]) = 2
        /\ Len(papers[y]) = 1
        /\ failed_count[y] = 1

(***************************************************************************)
(* Properties of scrape_paper (checked under SpecExtract).                 *)
(***************************************************************************)
\* C2: a Paper that scrape_paper returns has a non-empty title and a
\* non-empty abstract, and a page whose title or abstract came out empty
\* gives no Paper.
C2_AcceptanceRule ==
    epc = "done" =>
        /\ result /= NoPaper => (result.title /= <<>> /\ result.abstract.len > 0)
        /\ (title = <<>> \/ abstract.len = 0) => result = NoPaper

\* C2 witness: a Paper was returned, its abstract a fallback paragraph
C2_Witness ==
    /\ epc = "done"
    /\ result /= NoPaper
    /\ result.abstract.src[1] = "paragraph"

\* C17: the abstract of a returned Paper passed its length test: taken from
\* an abstract selector it is longer than 50 characters, taken from a
\* paragraph it is longer than 200; and an abstract selector whose text is
\* 50 characters or fewer does not keep the paragraph scan from running.
C17_LengthValidated ==
    /\ (epc = "done" /\ result /= NoPaper) =>
          /\ result.abstract.src[1] = "selector" => result.abstract.len > MinAbstractLen
          /\ result.abstract.src[1] = "paragraph" => result.abstract.len > MinParagraphLen
    /\ (epc = "links" /\ abstract.src[1] = "selector") => abstract.len > MinAbstractLen

\* C18: in the title loop and in the author loop, a selector whose element
\* has no text left (or that finds no element) is followed by the next
\* selector; the emphasis scan starts only after the last author selector.
C18_FirstNonEmptyWins ==
    [][/\ (epc = "title" /\ esel < NumTitleSelectors /\ title' = <<>> /\ epc' /= "done") =>
            (epc' = "title" /\ esel' = esel + 1)
       /\ (epc = "authors" /\ esel < NumAuthorSelectors /\ authors' = <<>> /\ epc' /= "done") =>
            (epc' = "authors" /\ esel' = esel + 1)
       /\ (epc = "authors" /\ epc' = "emphasis") => esel = NumAuthorSelectors]_vars

(***************************************************************************)
(* Properties of the cache (checked under SpecCache and SpecText).         *)
(***************************************************************************)
\* the calls that returned what they read from the cache
ReturnedFromCache ==
    {f \in Fetches : fpc[f] = "done" /\ use_cache /\ seen[f] /= Absent /\ ~readfail[f]}

\* C27: every link scanned makes the PDF URL its own target when its text
\* contains 'pdf' or its href ends in '.pdf' and leaves the PDF URL alone
\* otherwise, and makes the supplementary URL its own target when its text
\* contains 'supp' and leaves it alone otherwise (so each URL is the target
\* of the last link of its kind); in the Paper returned a URL is None
\* exactly when no link of its kind was scanned, and is never empty.
C27_LastLinkOfEachKind ==
    /\ [][(epc = "links" /\ scanned' = scanned + 1) =>
            /\ pdf_url' = IF link'.textPdf \/ link'.hrefPdf
                             THEN <<"link", scanned'>> ELSE pdf_url
            /\ supp_url' = IF link'.textSupp
                              THEN <<"link", scanned'>> ELSE supp_url]_vars
    /\ [](result /= NoPaper =>
            /\ result.pdf_url /= <<>>
            /\ result.supplementary_url /= <<>>
            /\ result.pdf_url = NoneUrl <=> pdf_url = <<>>
            /\ result.supplementary_url = NoneUrl <=> supp_url = <<>>)

\* C5: a cache entry that is visible holds the complete body of one
\* successful fetch of its key, and so does whatever a cache read returns.
C5_AtomicPublish ==
    /\ \A k \in CacheKeys : file[k] /= Absent => file[k] \in served[k]
    /\ \A f \in ReturnedFromCache : fret[f] \in served[fkey[f]]

C22_FailureNotCached ==
    /\ [](\A k \in CacheKeys : file[k] /= Absent => served[k] /= {})
    /\ [][\A f \in Fetches :
            /\ (fpc[f] = "net" /\ fpc'[f] = "done" /\ fret'[f] = NoContent) => file' = file
            /\ (fpc[f] = "idle" /\ fpc'[f] \notin {"idle", "raised"} /\ file[fkey'[f]] = Absent) =>
                  fpc'[f] = "net"]_vars

\* C22 witness: with caching on, one call's request failed, no file was
\* left, and another call with the same key found none and got the page
\* from the network
C22_Witness ==
    /\ use_cache
    /\ \E f \in Fetches : \E g \in Fetches :
          /\ f /= g
          /\ fkey[f] = fkey[g]
          /\ fpc[f] = "done" /\ fret[f] = NoContent /\ requests[f] = 1
          /\ fpc[g] = "done" /\ seen[g] = Absent /\ requests[g] = 1
          /\ fret[g] \in Bodies

\* C23: no error of the cache leaves get_cached_or_fetch: the call never
\* ends in an exception; after a failed cache read it goes to the network;
\* and a call that went to the network returns what the network gave,
\* whatever became of the cache write.
C23_CacheErrorsHidden ==
    \A f \in Fetches :
        /\ fpc[f] /= "raised"
        /\ (readfail[f] /\ fpc[f] = "done") => requests[f] = 1
        /\ (fpc[f] = "done" /\ requests[f] > 0) =>
              fret[f] = IF fcontent[f] = <<>> THEN NoContent ELSE fcontent[f]

\* C7: a text written to a cache file and read back is the text written.
C7_RoundTrip ==
    tpc = "read" => t_read = t_content

(***************************************************************************)
(* Properties of the keyword tools (checked under SpecStat).               *)
(***************************************************************************)
\* the keywords the tool that was called finds in a paper
HitsOf(paper) ==
    IF k_tool = "analyze_papers"
      THEN search_keywords_in_text(CombinedText(paper.title, paper.abstract), Keywords)
      ELSE search_keywords(CombinedText(Strip(paper.title), paper.abstract), Keywords)

\* the papers of a year, by their place in the list, in which a keyword is found
MatchingPapers(y) ==
    {i \in DOMAIN k_papers : k_papers[i].year = y /\ HitsOf(k_papers[i]) /= {}}

\* C28: when a keyword tool has returned, the ANY count of every year is
\* the number of papers of that year in which at least one keyword is
\* found, each paper counted once; so it is at least the count of every
\* keyword for the year and at most the total of the year.
C28_AnyCountsPapers ==
    kpc = "returned" =>
        \A y \in AllYears :
            /\ AnyCount(y) = Cardinality(MatchingPapers(y))
            /\ \A k \in Keywords : AnyCount(y) >= year_stats[y][k]
            /\ AnyCount(y) <= year_totals[y]

(***************************************************************************)
(* Properties of a re-run (checked under SpecRerun).                       *)
(***************************************************************************)
\* C10: a re-run over the cache that a fully successful run left gives the
\* same URL set and the same Records, requests nothing from the network
\* that the first run fetched and cached, and uses the same cache key for
\* each page as the first run did.
C10_Idempotent ==
    (run = 2 /\ rpc = "finished" /\ run_ok[1]) =>
        /\ run_urls[2] = run_urls[1]
        /\ run_records[2] = run_records[1]
        /\ run_net[2] \cap (run_urls[1] \cup {IndexPage}) = {}
        /\ \A u \in run_urls[1] : PaperKey(run_seed[2], u) = PaperKey(run_seed[1], u)

\* C12: no retry: in one run of a partition no target (the index page, a
\* discovered paper page) is requested from the network more than once,
\* whether its request succeeded or failed.
C12_NoRetry ==
    \A r \in Runs : \A target \in Targets : run_gets[r][target] <= 1

\* C12 witness: a run ended in which a paper page was requested once and
\* gave no Record (its request failed)
C12_Witness ==
    /\ rpc = "finished"
    /\ \E u \in run_urls[run] :
          /\ run_gets[run][u] = 1
          /\ \A rec \in run_records[run] : rec[1] /= u

(***************************************************************************)
(* Properties of discovery (checked under SpecDiscover).                   *)
(***************************************************************************)
\* the URLs of the scanned links that pass the test of the scan loop
MatchedUrls == {d_links[i].url : i \in {j \in DOMAIN d_links : Matches(d_year, d_links[j])}}

\* C13: get_paper_urls_for_year returns each matched URL once, however many
\* links or rules gave it, and scrape_year makes exactly one task for it.
C13_DiscoverDedups ==
    /\ dpc \in {"returned", "done"} =>
          /\ \A i \in DOMAIN d_urls : \A j \in DOMAIN d_urls : i /= j => d_urls[i] /= d_urls[j]
          /\ Range(d_urls) = MatchedUrls
    /\ dpc = "done" =>
          \A u \in MatchedUrls : Cardinality({i \in DOMAIN d_tasks : d_tasks[i] = u}) = 1

\* C13 witness: two links of the listing page give the same URL, one by the
\* paper rule and one by the legacy rule, and one task was made
C13_Witness ==
    /\ dpc = "done"
    /\ ~FlatLayout(d_year)
    /\ Len(d_tasks) = 1
    /\ \E i \in DOMAIN d_links : \E j \in DOMAIN d_links :
          /\ i < j
          /\ d_links[i].url = d_links[j].url
          /\ d_links[i].paper /\ ~d_links[i].legacy
          /\ d_links[j].legacy /\ ~d_links[j].paper

====
